---- MODULE Spec2Model ----
(***************************************************************************)
(* SimpleKanbanCalendar (src/main.go): the occurrence store `items`, the   *)
(* recurrence expansion of handleSidebarAction, the scoped deletion of     *)
(* performSmartDelete, the day-membership test of refreshCalendar, and the *)
(* other handlers that write the store.                                    *)
(*                                                                         *)
(* Time.  A time.Time is the pair <<day, sec>>: days since 1970-01-01 and  *)
(* seconds into that day.  The zone is time.Local taken as a zone with a   *)
(* fixed offset (no daylight-saving transitions), the "single local        *)
(* civil-time notion" of the specification.  A stored timestamp string     *)
(* "YYYY-MM-DD HH:MM" is the tuple <<y, m, d, hh, mm>> of its fields.       *)
(*                                                                         *)
(* Identities.  fmt.Sprintf("%d", t) is <<"item", t>>, "%d-%d" is          *)
(* <<"gen", t, k>>, "imp-%d-%d" is <<"imp", t, k>>, "s-%d" is <<"s", t>>   *)
(* and "" is <<>>: two such strings are equal exactly when the tuples are, *)
(* since a decimal numeral holds no '-' and starts with neither "imp-" nor *)
(* "s-".                                                                   *)
(*                                                                         *)
(* Calendars.  Every handler that writes `items` or `groups` saves them to *)
(* the files of the active calendar, so these files hold what the          *)
(* variables hold; calendarFiles keeps the files of the calendars that are *)
(* not loaded.  exportedFile is the events of the file that "Export .ICS"   *)
(* wrote last, <<>> before any export.                                     *)
(***************************************************************************)
EXTENDS Integers, Sequences, FiniteSets, TLC

VARIABLES items, groups, currentEditItemID, currentViewDate, activeCalendarName,
          calendarFiles, exportedFile, last, ops

vars == <<items, groups, currentEditItemID, currentViewDate, activeCalendarName,
          calendarFiles, exportedFile, last, ops>>

(***************************************************************************)
(* Bounds of the model.                                                    *)
(***************************************************************************)
\* largest value typed into the recurrence count field
MaxCount == 3
\* readings of time.Now().UnixNano() range over 1..MaxClock
MaxClock == 2
\* operations of one behaviour of the store specification
MaxOps == 3
\* months the calendar view is moved away from the first viewed month
MaxNav == 1

\* the cap of the generation loop, `for count < 100`
MaxGenerated == 100

(***************************************************************************)
(* Civil time: the arithmetic of Go's time package at the call sites.      *)
(***************************************************************************)
SecondsPerDay == 24 * 60 * 60

IsLeap(y) == (y % 4 = 0) /\ ((y % 100 # 0) \/ (y % 400 = 0))

DaysIn(y, m) ==
    CASE m \in {1, 3, 5, 7, 8, 10, 12} -> 31
      [] m \in {4, 6, 9, 11} -> 30
      [] OTHER -> IF IsLeap(y) THEN 29 ELSE 28

\* days from 1970-01-01 to the civil date y-m-d; linear in d, so that a day
\* beyond the month's end overflows into the following months as time.Date does
DaysFromCivil(y, m, d) ==
    LET yy  == IF m <= 2 THEN y - 1 ELSE y
        era == yy \div 400
        yoe == yy - era * 400
        mp  == IF m > 2 THEN m - 3 ELSE m + 9
        doy == ((153 * mp + 2) \div 5) + d - 1
        doe == yoe * 365 + (yoe \div 4) - (yoe \div 100) + doy
    IN  era * 146097 + doe - 719468

\* the civil date <<y, m, d>> of a day number
CivilFromDays(z) ==
    LET zz  == z + 719468
        era == zz \div 146097
        doe == zz - era * 146097
        yoe == (doe - (doe \div 1460) + (doe \div 36524) - (doe \div 146096)) \div 365
        doy == doe - (365 * yoe + (yoe \div 4) - (yoe \div 100))
        mp  == (5 * doy + 2) \div 153
        d   == doy - ((153 * mp + 2) \div 5) + 1
        m   == IF mp < 10 THEN mp + 3 ELSE mp - 9
        y   == yoe + era * 400
    IN  <<IF m <= 2 THEN y + 1 ELSE y, m, d>>

\* the zero time.Time, 0001-01-01 00:00:00, which a failed parse returns
ZeroTime == <<DaysFromCivil(1, 1, 1), 0>>

Before(a, b) == a[1] < b[1] \/ (a[1] = b[1] /\ a[2] < b[2])

After(a, b) == Before(b, a)

Equal(a, b) == a[1] = b[1] /\ a[2] = b[2]

\* t.Sub(u), in seconds
Sub(t, u) == (t[1] - u[1]) * SecondsPerDay + (t[2] - u[2])

\* t.Add(d), d in seconds
Add(t, d) ==
    LET total == t[2] + d
    IN  <<t[1] + (total \div SecondsPerDay), total % SecondsPerDay>>

\* t.AddDate(years, months, days): the month is normalised into the year, the
\* day overflows into the following months, the time of day is kept
AddDate(t, years, months, days) ==
    LET c  == CivilFromDays(t[1])
        m0 == c[2] - 1 + months
        y  == c[1] + years + (m0 \div 12)
        m  == (m0 % 12) + 1
    IN  <<DaysFromCivil(y, m, 1) + (c[3] - 1 + days), t[2]>>

\* t.Weekday(): 0 is Sunday; 1970-01-01 was a Thursday
Weekday(t) == (t[1] + 4) % 7

\* time.ParseInLocation("2006-01-02 15:04", s, time.Local), its error dropped:
\* a string that names no date or time of day parses to the zero time
Parse(s) ==
    IF /\ s[2] \in 1..12
       /\ s[3] \in 1..DaysIn(s[1], s[2])
       /\ s[4] \in 0..23
       /\ s[5] \in 0..59
    THEN <<DaysFromCivil(s[1], s[2], s[3]), s[4] * 3600 + s[5] * 60>>
    ELSE ZeroTime

\* t.Format("2006-01-02 15:04"): the seconds are not written
Format(t) ==
    LET c == CivilFromDays(t[1])
    IN  <<c[1], c[2], c[3], t[2] \div 3600, (t[2] % 3600) \div 60>>

(***************************************************************************)
(* The data: TodoItem, Group, and the values the sidebar's widgets hold.   *)
(***************************************************************************)
TypeTask == "Task"

TypeEvent == "Event"

\* the empty string, as an item or series identity
NoID == <<>>

\* strconv.Atoi, its error dropped.  The text of an entry is <<"digits", k>> for
\* the decimal numeral of k, <<"minus", k>> for "-" followed by it, and
\* <<"junk">> for a text that is no number, which Atoi turns into 0
Atoi(text) ==
    CASE text[1] = "digits" -> text[2]
      [] text[1] = "minus" -> 0 - text[2]
      [] OTHER -> 0

\* combine: the date button's text and the three selects of a time picker,
\* <<h, m, ap>>, joined into "YYYY-MM-DD HH:MM" with the hour on the 24 h clock
combine(dateStr, h, m, ap) ==
    LET hour0 == h
        hour1 == IF ap = "PM" /\ hour0 # 12 THEN hour0 + 12 ELSE hour0
        hour  == IF ap = "AM" /\ hour1 = 12 THEN 0 ELSE hour1
    IN  <<dateStr[1], dateStr[2], dateStr[3], hour, m>>

\* the set of indexes of the groups named `name`
groupsNamed(name) == {i \in 1..Len(groups) : groups[i].Name = name}

\* the first group with that name (for _, g := range groups ... break)
firstGroupNamed(name) ==
    groups[CHOOSE i \in groupsNamed(name) : \A j \in groupsNamed(name) : i <= j]

\* selectedGroupID without the fall-back to the first group
selectedGroupID_NoFallback(sb) ==
    IF groupsNamed(sb.Group) # {} THEN firstGroupNamed(sb.Group).ID ELSE ""

\* handleSidebarAction's selectedGroupID: the selected group's ID, else the
\* first group's, else ""
selectedGroupID(sb) ==
    IF groupsNamed(sb.Group) # {} THEN firstGroupNamed(sb.Group).ID
    ELSE IF Len(groups) > 0 THEN groups[1].ID
    ELSE ""

\* sVal: the start string read from the pickers of the selected type
sVal(sb) ==
    IF sb.Type = "Event"
    THEN combine(sb.StartDate, sb.StartTime[1], sb.StartTime[2], sb.StartTime[3])
    ELSE combine(sb.TaskDate, sb.TaskTime[1], sb.TaskTime[2], sb.TaskTime[3])

\* eVal: the end string; a task's end is its start
eVal(sb) ==
    IF sb.Type = "Event"
    THEN combine(sb.EndDate, sb.EndTime[1], sb.EndTime[2], sb.EndTime[3])
    ELSE sVal(sb)

curType(sb) == IF sb.Type = "Event" THEN TypeEvent ELSE TypeTask

\* the series identity minted without its "s-" prefix
newSeriesID_NoPrefix(sb, now) == IF sb.RecChecked THEN <<"item", now>> ELSE NoID

\* newSeriesID: "s-<clock>" when "Recurring?" is checked, else ""
newSeriesID(sb, now) == IF sb.RecChecked THEN <<"s", now>> ELSE NoID

baseItem(sb, now) ==
    [ID        |-> <<"item", now>>,
     Title     |-> sb.Title,
     GroupID   |-> selectedGroupID(sb),
     Type      |-> curType(sb),
     Start     |-> sVal(sb),
     End       |-> eVal(sb),
     SeriesID  |-> newSeriesID(sb, now),
     Completed |-> FALSE]

\* the count used as parsed, without `if n < 1 { n = 1 }`
intervalCount_NotClamped(text) == Atoi(text)

(***************************************************************************)
(* The recurrence expansion: the loop of handleSidebarAction.              *)
(***************************************************************************)
\* n, _ := strconv.Atoi(recNumEntry.Text); if n < 1 { n = 1 }
intervalCount(text) == IF Atoi(text) < 1 THEN 1 ELSE Atoi(text)

\* the interval subtracted instead of added
nextIntervalDate_Negated(currentDate, n, unit) ==
    CASE unit = "Day(s)"   -> AddDate(currentDate, 0, 0, 0 - n)
      [] unit = "Week(s)"  -> AddDate(currentDate, 0, 0, 0 - (n * 7))
      [] unit = "Month(s)" -> AddDate(currentDate, 0, 0 - n, 0)
      [] unit = "Year(s)"  -> AddDate(currentDate, 0 - n, 0, 0)
      [] OTHER             -> currentDate

\* a month taken as thirty days
nextIntervalDate_MonthAsDays(currentDate, n, unit) ==
    CASE unit = "Day(s)"   -> AddDate(currentDate, 0, 0, n)
      [] unit = "Week(s)"  -> AddDate(currentDate, 0, 0, n * 7)
      [] unit = "Month(s)" -> AddDate(currentDate, 0, 0, n * 30)
      [] unit = "Year(s)"  -> AddDate(currentDate, n, 0, 0)
      [] OTHER             -> currentDate

\* the switch on recUnitSelect.Selected; no case matching leaves the date
nextIntervalDate(currentDate, n, unit) ==
    CASE unit = "Day(s)"   -> AddDate(currentDate, 0, 0, n)
      [] unit = "Week(s)"  -> AddDate(currentDate, 0, 0, n * 7)
      [] unit = "Month(s)" -> AddDate(currentDate, 0, n, 0)
      [] unit = "Year(s)"  -> AddDate(currentDate, n, 0, 0)
      [] OTHER -> currentDate

\* the switch on recDaySelect.Selected; time.Monday when no case matches
targetWeekday(targetDayStr) ==
    CASE targetDayStr = "Sunday"    -> 0
      [] targetDayStr = "Monday"    -> 1
      [] targetDayStr = "Tuesday"   -> 2
      [] targetDayStr = "Wednesday" -> 3
      [] targetDayStr = "Thursday"  -> 4
      [] targetDayStr = "Friday"    -> 5
      [] targetDayStr = "Saturday"  -> 6
      [] OTHER -> 1

\* the inner loop: daysToAdd++ until currentDate + daysToAdd falls on the weekday
RECURSIVE nextWeekdayDate(_, _, _)
nextWeekdayDate(currentDate, daysToAdd, weekday) ==
    LET d == AddDate(currentDate, 0, 0, daysToAdd + 1)
    IN  IF Weekday(d) = weekday THEN d
        ELSE nextWeekdayDate(currentDate, daysToAdd + 1, weekday)

\* the extra week added whatever the ordinal
ordinalShift_Always(d, ordinal) == AddDate(d, 0, 0, 7)

\* "Every Other" adds a week to the weekday found
ordinalShift(d, ordinal) ==
    IF ordinal = "Every Other" THEN AddDate(d, 0, 0, 7) ELSE d

nextSpecificDate(currentDate, targetDayStr, ordinal) ==
    ordinalShift(nextWeekdayDate(currentDate, 0, targetWeekday(targetDayStr)), ordinal)

\* one pass of the loop body up to the limit test: the next value of currentDate
nextDate(sb, currentDate) ==
    IF sb.RecMode = "Interval"
    THEN nextIntervalDate(currentDate, intervalCount(sb.RecNum), sb.RecUnit)
    ELSE nextSpecificDate(currentDate, sb.RecDay, sb.RecOrdinal)

\* limitDate := baseStart.AddDate(1, 0, 0)
limitDate(baseStart) == AddDate(baseStart, 1, 0, 0)

\* the cap tested one pass too late
loopCondition_OffByOne(count) == count <= MaxGenerated

\* for count < 100
loopCondition(count) == count < MaxGenerated

\* if currentDate.After(limitDate) { break }
pastLimit(currentDate, limit) == After(currentDate, limit)

\* a generated item built from an empty record instead of a copy of baseItem:
\* its group is missing
newItem_GroupNotCopied(base, currentDate, duration, now, count) ==
    [base EXCEPT !.ID = <<"gen", now, count>>,
                 !.GroupID = "",
                 !.Start = Format(currentDate),
                 !.End = Format(Add(currentDate, duration))]

\* the copy's end left as the base's end
newItem_EndNotShifted(base, currentDate, duration, now, count) ==
    [base EXCEPT !.ID    = <<"gen", now, count>>,
                 !.Start = Format(currentDate)]

\* newItem: a copy of the base with its own ID, start and end
newItem(base, currentDate, duration, now, count) ==
    [base EXCEPT !.ID    = <<"gen", now, count>>,
                 !.Start = Format(currentDate),
                 !.End   = Format(Add(currentDate, duration))]

\* a pass without its count++
loopPass_CountNotIncremented(sb, base, limit, duration, now, st) ==
    IF st.done THEN st
    ELSE IF ~loopCondition(st.count) THEN [st EXCEPT !.done = TRUE]
    ELSE LET next == nextDate(sb, st.currentDate)
         IN  IF pastLimit(next, limit)
             THEN [st EXCEPT !.currentDate = next, !.done = TRUE]
             ELSE [currentDate |-> next,
                   count       |-> st.count,
                   out         |-> Append(st.out, newItem(base, next, duration, now, st.count)),
                   done        |-> FALSE]

\* one pass of `for count < 100 { ... }` from the loop state st: the current
\* date, the count, the items appended so far, and whether the loop has ended
loopPass(sb, base, limit, duration, now, st) ==
    IF st.done THEN st
    ELSE IF ~loopCondition(st.count) THEN [st EXCEPT !.done = TRUE]
    ELSE LET next == nextDate(sb, st.currentDate)
         IN  IF pastLimit(next, limit)
             THEN [st EXCEPT !.currentDate = next, !.done = TRUE]
             ELSE [currentDate |-> next,
                   count       |-> st.count + 1,
                   out         |-> Append(st.out, newItem(base, next, duration, now, st.count)),
                   done        |-> FALSE]

\* n passes of the loop, or as many as it makes before it ends; the passes are
\* taken in two halves, which keeps the evaluation shallow
RECURSIVE loopPasses(_, _, _, _, _, _, _)
loopPasses(sb, base, limit, duration, now, st, n) ==
    IF n <= 1 THEN loopPass(sb, base, limit, duration, now, st)
    ELSE LET mid == loopPasses(sb, base, limit, duration, now, st, n \div 2)
         IN  IF mid.done THEN mid
             ELSE loopPasses(sb, base, limit, duration, now, mid, n - (n \div 2))

\* the loop run to its end: it ends within MaxGenerated + 1 passes when the cap
\* is in force, and 2 * MaxGenerated passes are allowed for
generate(sb, base, limit, duration, now, baseStart) ==
    loopPasses(sb, base, limit, duration, now,
               [currentDate |-> baseStart, count |-> 0, out |-> <<>>, done |-> FALSE],
               2 * MaxGenerated).out

\* itemsToCreate: the base, then its siblings when "Recurring?" is checked
itemsToCreate(sb, now) ==
    LET baseStart == Parse(sVal(sb))
        baseEnd   == Parse(eVal(sb))
        duration  == Sub(baseEnd, baseStart)
        base      == baseItem(sb, now)
    IN  IF sb.RecChecked
        THEN <<base>> \o generate(sb, base, limitDate(baseStart), duration, now, baseStart)
        ELSE <<base>>

\* the "Add Item" button.  It is shown only while no item is being edited.  All
\* reads of the clock in one run of the handler return `now`: later reads could
\* only be larger, and no identity format lets two reads of one run collide.
handleSidebarAction(sb, now) ==
    /\ currentEditItemID = NoID
    /\ ops < MaxOps
    /\ items' = IF sb.Title = "" \/ selectedGroupID(sb) = ""
                THEN items
                ELSE items \o itemsToCreate(sb, now)
    /\ last' = [op |-> "add", pre |-> items, arg |-> [sb |-> sb, now |-> now]]
    /\ ops' = ops + 1
    /\ UNCHANGED <<groups, currentEditItemID, currentViewDate, activeCalendarName, calendarFiles, exportedFile>>

(***************************************************************************)
(* The calendar view: refreshCalendar's day-membership test.               *)
(***************************************************************************)
\* dayStart := time.Date(year, month, d, 0, 0, 0, 0, time.Local)
dayStart(year, month, d) == <<DaysFromCivil(year, month, d), 0>>

\* dayEnd := time.Date(year, month, d, 23, 59, 59, 0, time.Local)
dayEnd(year, month, d) == <<DaysFromCivil(year, month, d), 23 * 3600 + 59 * 60 + 59>>

\* the test without its e.Equal(dayStart) disjunct
overlaps_NoEqual(s, e, dStart, dEnd) == Before(s, dEnd) /\ After(e, dStart)

\* s.Before(dayEnd) && (e.After(dayStart) || e.Equal(dayStart))
overlaps(s, e, dStart, dEnd) ==
    Before(s, dEnd) /\ (After(e, dStart) \/ Equal(e, dStart))

\* whether refreshCalendar adds the item to the cell of day d of year-month
matchesDay(item, year, month, d) ==
    overlaps(Parse(item.Start), Parse(item.End),
             dayStart(year, month, d), dayEnd(year, month, d))

\* year, month, _ := currentViewDate.Date()
viewYear == CivilFromDays(currentViewDate[1])[1]

viewMonth == CivilFromDays(currentViewDate[1])[2]

\* daysInMonth := first.AddDate(0, 1, -1).Day()
daysInMonth ==
    CivilFromDays(AddDate(dayStart(viewYear, viewMonth, 1), 0, 1, 0 - 1)[1])[3]

\* the cells refreshCalendar builds: for each day of the viewed month, the
\* indexes of the items shown in it, in store order
calendarCells ==
    [d \in 1..daysInMonth |->
        {i \in 1..Len(items) : matchesDay(items[i], viewYear, viewMonth, d)}]

\* the month the application starts in (time.Now() at start-up)
Today == <<DaysFromCivil(2024, 3, 5), 12 * 3600>>

monthIndex(t) == CivilFromDays(t[1])[1] * 12 + CivilFromDays(t[1])[2]

\* the "<" button of the calendar
btnPrev ==
    /\ monthIndex(currentViewDate) > monthIndex(Today) - MaxNav
    /\ currentViewDate' = AddDate(currentViewDate, 0, 0 - 1, 0)
    /\ UNCHANGED <<items, groups, currentEditItemID, last, ops, activeCalendarName, calendarFiles, exportedFile>>

\* the ">" button of the calendar
btnNext ==
    /\ monthIndex(currentViewDate) < monthIndex(Today) + MaxNav
    /\ currentViewDate' = AddDate(currentViewDate, 0, 1, 0)
    /\ UNCHANGED <<items, groups, currentEditItemID, last, ops, activeCalendarName, calendarFiles, exportedFile>>

(***************************************************************************)
(* The calendars of availableCalendars and what loadGroups and loadData    *)
(* find for a calendar that has no files yet.                              *)
(***************************************************************************)
CalendarNames == {"Default", "Second"}

\* loadGroups' default groups, in the order of updateGroupDropdown
defaultGroups ==
    <<[ID |-> "g-2", Name |-> "Personal", ColorHex |-> "#2ECC71", SortMode |-> ""],
      [ID |-> "g-1", Name |-> "Work", ColorHex |-> "#3498DB", SortMode |-> ""]>>

newCalendar == [items |-> <<>>, groups |-> defaultGroups]

(***************************************************************************)
(* The state after main() has loaded an empty data directory: no items,    *)
(* loadGroups' two default groups, sorted by name by updateGroupDropdown.  *)
(***************************************************************************)
Init ==
    /\ items = <<>>
    /\ groups = defaultGroups
    /\ currentEditItemID = NoID
    /\ currentViewDate = Today
    /\ activeCalendarName = "Default"
    /\ calendarFiles = [n \in CalendarNames \ {"Default"} |-> newCalendar]
    /\ exportedFile = <<>>
    /\ last = [op |-> "init", pre |-> <<>>, arg |-> <<>>]
    /\ ops = 0

(***************************************************************************)
(* Values the user can put into the sidebar before pressing "Add Item".    *)
(***************************************************************************)
\* dates picked with the date buttons
DateInputs == {<<2024, 1, 31>>, <<2024, 2, 29>>, <<2024, 3, 5>>, <<2024, 3, 31>>}

\* <<hour, minute, AM/PM>> picked with a time picker: 00:00, 09:00 and 23:55
TimeInputs == {<<12, 0, "AM">>, <<9, 0, "AM">>, <<11, 55, "PM">>}

\* texts of the recurrence count entry
CountInputs ==
    {<<"digits", k>> : k \in 0..MaxCount} \cup {<<"minus", 1>>, <<"junk">>}

UnitInputs == {"Day(s)", "Week(s)", "Month(s)", "Year(s)"}

DayInputs == {"Monday", "Tuesday", "Wednesday", "Thursday", "Friday", "Saturday", "Sunday"}

\* the sidebar as createSidebar leaves it, with a title typed in
sidebarDefault ==
    [Title |-> "a", Group |-> "Personal", Type |-> "Task",
     TaskDate |-> <<2024, 3, 5>>, TaskTime |-> <<9, 0, "AM">>,
     StartDate |-> <<2024, 3, 5>>, StartTime |-> <<9, 0, "AM">>,
     EndDate |-> <<2024, 3, 5>>, EndTime |-> <<9, 0, "AM">>,
     RecChecked |-> FALSE, RecMode |-> "Interval", RecNum |-> <<"digits", 1>>,
     RecUnit |-> "Week(s)", RecOrdinal |-> "Every", RecDay |-> "Monday"]

\* the pickers of a task or of an event set; the pickers of the other type
\* are not read by the handler and stay as they were.  `ends` are pairs
\* <<end date, end time>>
withTimes(sb, dates, times, ends) ==
    {[sb EXCEPT !.Type = "Task", !.TaskDate = d, !.TaskTime = t] :
        d \in dates, t \in times}
    \cup
    {[sb EXCEPT !.Type = "Event", !.StartDate = x[1], !.StartTime = x[2],
                !.EndDate = x[3][1], !.EndTime = x[3][2]] :
        x \in dates \X times \X ends}

\* the recurrence controls set
withRecurrence(sb, counts, units, ordinals, days) ==
    {sb}
    \cup
    {[sb EXCEPT !.RecChecked = TRUE, !.RecMode = "Interval",
                !.RecNum = x[1], !.RecUnit = x[2]] : x \in counts \X units}
    \cup
    {[sb EXCEPT !.RecChecked = TRUE, !.RecMode = "Specific Day",
                !.RecOrdinal = x[1], !.RecDay = x[2]] : x \in ordinals \X days}

\* ends of events: before, on and after the starts of DateInputs
EndInputs ==
    {<<<<2024, 1, 31>>, <<12, 0, "AM">>>>,
     <<<<2024, 3, 5>>, <<9, 0, "AM">>>>,
     <<<<2024, 3, 31>>, <<11, 55, "PM">>>>}

WideSidebarInputs ==
    UNION {withRecurrence(sb, CountInputs, UnitInputs, {"Every", "Every Other"}, DayInputs) :
              sb \in withTimes(sidebarDefault, DateInputs, TimeInputs, EndInputs)}

(***************************************************************************)
(* SpecExpand: one press of "Add Item" on the empty store, for every rule  *)
(* the sidebar can express.                                                *)
(***************************************************************************)
addItemWide ==
    \E sb \in WideSidebarInputs :
        /\ items = <<>>
        /\ handleSidebarAction(sb, 1)

NextExpand == addItemWide

SpecExpand == Init /\ [][NextExpand]_vars

(***************************************************************************)
(* SpecMonthly: one press of "Add Item" on the empty store with a rule of  *)
(* every 1..MaxCount months, or every 12, for tasks and events that start  *)
(* on a day of the month up to the 28th.                                   *)
(***************************************************************************)
MonthlyDates == {<<2023, 2, 28>>, <<2024, 1, 1>>, <<2024, 1, 28>>, <<2024, 11, 15>>}

\* 00:00, 10:00 and 23:55
MonthlyTimes == {<<12, 0, "AM">>, <<10, 0, "AM">>, <<11, 55, "PM">>}

\* ends of events: an hour into 2024, and the last minutes of 2024
MonthlyEnds ==
    {<<<<2024, 1, 1>>, <<1, 0, "AM">>>>, <<<<2024, 12, 31>>, <<11, 55, "PM">>>>}

MonthlySidebarInputs ==
    {[sb EXCEPT !.RecChecked = TRUE, !.RecMode = "Interval", !.RecUnit = "Month(s)",
                !.RecNum = <<"digits", n>>] :
        sb \in withTimes(sidebarDefault, MonthlyDates, MonthlyTimes, MonthlyEnds),
        n \in (1..MaxCount) \cup {12}}

addItemMonthly ==
    \E sb \in MonthlySidebarInputs :
        /\ items = <<>>
        /\ handleSidebarAction(sb, 1)

NextMonthly == addItemMonthly

SpecMonthly == Init /\ [][NextMonthly]_vars

(***************************************************************************)
(* SpecCalendar: one item of any start and end added without recurrence,   *)
(* and the calendar moved between months.                                  *)
(***************************************************************************)
CalendarDates ==
    {<<2024, 2, 1>>, <<2024, 2, 29>>, <<2024, 3, 1>>, <<2024, 3, 5>>, <<2024, 3, 31>>,
     <<2024, 4, 1>>}

CalendarSidebarInputs ==
    withTimes(sidebarDefault, CalendarDates, TimeInputs, CalendarDates \X TimeInputs)

addItemPlain ==
    \E sb \in CalendarSidebarInputs :
        /\ items = <<>>
        /\ handleSidebarAction(sb, 1)

NextCalendar == addItemPlain \/ btnPrev \/ btnNext

SpecCalendar == Init /\ [][NextCalendar]_vars

(***************************************************************************)
(* Editing: startEditing, autoSave, resetSidebar, the context menu.        *)
(***************************************************************************)
\* the indexes of the items with that ID
indexesOf(its, id) == {i \in 1..Len(its) : its[i].ID = id}

\* the first of them (for i := range items ... break)
firstIndexOf(its, id) ==
    CHOOSE i \in indexesOf(its, id) : \A j \in indexesOf(its, id) : i <= j

\* the title written to every occurrence of the target's series
autoSaved_WholeSeries(its, id, sb) ==
    IF id = NoID \/ sb.Title = "" \/ {i \in 1..Len(its) : its[i].ID = id} = {} THEN its
    ELSE LET t == its[CHOOSE i \in 1..Len(its) :
                        its[i].ID = id /\ \A j \in 1..(i - 1) : its[j].ID # id]
         IN  [i \in 1..Len(its) |->
                IF its[i].ID = id \/ (t.SeriesID # NoID /\ its[i].SeriesID = t.SeriesID)
                THEN [its[i] EXCEPT !.Title = sb.Title, !.Type = curType(sb),
                                    !.Start = sVal(sb), !.End = eVal(sb)]
                ELSE its[i]]

\* autoSavedWith without the return for a target that is not found: the
\* values are stored as a new item
autoSavedWith_StoresWhenAbsent(its, grps, id, sb) ==
    LET named == {i \in 1..Len(grps) : grps[i].Name = sb.Group}
        gid   == IF named # {} THEN grps[CHOOSE i \in named : \A j \in named : i <= j].ID
                 ELSE ""
    IN  IF id = NoID \/ sb.Title = "" THEN its
        ELSE IF indexesOf(its, id) = {}
        THEN Append(its, [ID |-> id, Title |-> sb.Title, Start |-> sVal(sb),
                          End |-> eVal(sb), Type |-> curType(sb), GroupID |-> gid,
                          Completed |-> FALSE, SeriesID |-> NoID])
        ELSE [its EXCEPT ![firstIndexOf(its, id)] =
                [@ EXCEPT !.Title   = sb.Title,
                          !.GroupID = IF named # {} THEN gid ELSE @,
                          !.Type    = curType(sb),
                          !.Start   = sVal(sb),
                          !.End     = eVal(sb)]]

\* autoSave with the sidebar holding sb, currentEditItemID = id and the groups
\* grps: nothing
\* without an ID, a title or a target; else the target's title, group (when the
\* selected name is a group's), type, start and end are overwritten
autoSavedWith(its, grps, id, sb) ==
    LET named == {i \in 1..Len(grps) : grps[i].Name = sb.Group}
    IN  IF id = NoID \/ sb.Title = "" \/ indexesOf(its, id) = {} THEN its
        ELSE [its EXCEPT ![firstIndexOf(its, id)] =
                [@ EXCEPT !.Title   = sb.Title,
                          !.GroupID = IF named # {}
                                      THEN grps[CHOOSE i \in named : \A j \in named : i <= j].ID
                                      ELSE @,
                          !.Type    = curType(sb),
                          !.Start   = sVal(sb),
                          !.End     = eVal(sb)]]

\* ... with the groups as they are
autoSaved(its, id, sb) == autoSavedWith(its, groups, id, sb)

\* autoSave fired by sbGroupSelect.SetSelected(name) after the group list became
\* grps, while the other widgets show what the edited item holds: the item goes
\* to the first group of grps with that name.  Nothing is written when no item
\* is edited, when the item is not in the store or when no group has the name.
autoSavedGroup(its, grps, id, name) ==
    LET named == {i \in 1..Len(grps) : grps[i].Name = name}
    IN  IF id = NoID \/ indexesOf(its, id) = {} \/ named = {} THEN its
        ELSE [its EXCEPT ![firstIndexOf(its, id)].GroupID =
                            grps[CHOOSE i \in named : \A j \in named : i <= j].ID]

\* getTimeParts: the <<hour, minute, AM/PM>> of a time of day
getTimeParts(hh, mm) ==
    LET ap == IF hh >= 12 THEN "PM" ELSE "AM"
        h1 == IF hh > 12 THEN hh - 12 ELSE hh
        h  == IF h1 = 0 THEN 12 ELSE h1
    IN  <<h, mm, ap>>

\* the widget values startEditing loads from an item: its title, the name of
\* its group, its type, and its start and end in the pickers of that type
sidebarShowing(sb, item) ==
    LET s  == Format(Parse(item.Start))
        e  == Format(Parse(item.End))
        gs == {i \in 1..Len(groups) : groups[i].ID = item.GroupID}
        withGroup == [sb EXCEPT !.Title = item.Title,
                                !.Group = IF gs = {} THEN @
                                          ELSE groups[CHOOSE i \in gs : \A j \in gs : i <= j].Name,
                                !.Type  = item.Type,
                                !.RecChecked = FALSE]
    IN  IF item.Type = TypeTask
        THEN [withGroup EXCEPT !.TaskDate = <<s[1], s[2], s[3]>>,
                               !.TaskTime = getTimeParts(s[4], s[5])]
        ELSE [withGroup EXCEPT !.StartDate = <<s[1], s[2], s[3]>>,
                               !.StartTime = getTimeParts(s[4], s[5]),
                               !.EndDate = <<e[1], e[2], e[3]>>,
                               !.EndTime = getTimeParts(e[4], e[5])]

\* a click on item i while the sidebar holds `stale`.  startEditing sets
\* currentEditItemID first and then loads the widgets one by one; the setters'
\* change callbacks call autoSave, which writes the item from the title just
\* loaded and from whatever the other widgets still hold.
startEditing(i, stale) ==
    /\ ops < MaxOps
    /\ currentEditItemID' = items[i].ID
    /\ items' = autoSaved(items, items[i].ID, [stale EXCEPT !.Title = items[i].Title])
    /\ last' = [op |-> "startEditing", pre |-> items, arg |-> [index |-> i, sb |-> stale]]
    /\ ops' = ops + 1
    /\ UNCHANGED <<groups, currentViewDate, activeCalendarName, calendarFiles, exportedFile>>

\* a change of a sidebar widget while an item is edited; sb is what the
\* sidebar holds after the change
autoSave(sb) ==
    /\ ops < MaxOps
    /\ currentEditItemID # NoID
    /\ items' = autoSaved(items, currentEditItemID, sb)
    /\ last' = [op |-> "autoSave", pre |-> items, arg |-> [sb |-> sb]]
    /\ ops' = ops + 1
    /\ UNCHANGED <<groups, currentEditItemID, currentViewDate, activeCalendarName, calendarFiles, exportedFile>>

\* the "Done Editing" button
resetSidebar ==
    /\ ops < MaxOps
    /\ currentEditItemID # NoID
    /\ currentEditItemID' = NoID
    /\ last' = [op |-> "resetSidebar", pre |-> items, arg |-> <<>>]
    /\ ops' = ops + 1
    /\ UNCHANGED <<items, groups, currentViewDate, activeCalendarName, calendarFiles, exportedFile>>

\* "Mark Complete" / "Mark Incomplete" of item i's context menu, or its check box
toggleCompleted(i) ==
    /\ ops < MaxOps
    /\ items' = [items EXCEPT ![i].Completed = ~@]
    /\ last' = [op |-> "toggle", pre |-> items, arg |-> [index |-> i]]
    /\ ops' = ops + 1
    /\ UNCHANGED <<groups, currentEditItemID, currentViewDate, activeCalendarName, calendarFiles, exportedFile>>

\* showMoveDialog's "Move" button with the group `name` selected; the dialog
\* offers the groups other than the item's
showMoveDialog(i, name) ==
    /\ ops < MaxOps
    /\ \E g \in 1..Len(groups) : groups[g].Name = name /\ groups[g].ID # items[i].GroupID
    /\ items' = [items EXCEPT ![i].GroupID = firstGroupNamed(name).ID]
    /\ last' = [op |-> "move", pre |-> items, arg |-> [index |-> i, name |-> name]]
    /\ ops' = ops + 1
    /\ UNCHANGED <<groups, currentEditItemID, currentViewDate, activeCalendarName, calendarFiles, exportedFile>>

(***************************************************************************)
(* Groups: showGroupManager, showGroupForm, updateGroupDropdown.           *)
(***************************************************************************)
\* the place of a group name in the order of sort.Slice's `<` on strings, for
\* the names the model uses
nameRank(name) ==
    CASE name = "Home"     -> 1
      [] name = "Personal" -> 2
      [] name = "Work"     -> 3
      [] name = "Zoo"      -> 4

\* updateGroupDropdown: the groups sorted by name (their names differ)
updateGroupDropdown(grps) ==
    [k \in 1..Len(grps) |->
        grps[CHOOSE i \in 1..Len(grps) :
                Cardinality({j \in 1..Len(grps) :
                                nameRank(grps[j].Name) < nameRank(grps[i].Name)}) = k - 1]]

\* fmt.Sprintf("g-%d", time.Now().UnixNano()); the reading is written "t1",
\* "t2", ... since no reading of a running clock gives the "g-1" and "g-2" of
\* the default groups
newGroupID(now) == "g-t" \o ToString(now)

\* the delete button of group g in the group manager, confirmed.  `selected`
\* says whether the sidebar's group select shows that group and its title entry
\* is not empty: then the select is set to the first remaining group, whose
\* change callback is autoSave
deleteGroup(g, selected) ==
    /\ ops < MaxOps
    /\ groups' = updateGroupDropdown(SelectSeq(groups, LAMBDA x : x.ID # groups[g].ID))
    /\ items' = IF selected /\ Len(groups') > 0
                THEN autoSavedGroup(items, groups', currentEditItemID, groups'[1].Name)
                ELSE items
    /\ last' = [op |-> "deleteGroup", pre |-> items,
                arg |-> [group |-> groups[g], selected |-> selected]]
    /\ ops' = ops + 1
    /\ UNCHANGED <<currentEditItemID, currentViewDate, activeCalendarName, calendarFiles, exportedFile>>

\* showGroupForm(nil), "Create Group" with a name that is not in use.  The group
\* select is set to the new name; `titled` says whether the title entry is not
\* empty, so that the autoSave this fires writes the edited item
createGroup(name, color, now, titled) ==
    /\ ops < MaxOps
    /\ \A i \in 1..Len(groups) : groups[i].Name # name
    /\ groups' = updateGroupDropdown(
                    Append(groups, [ID |-> newGroupID(now), Name |-> name,
                                    ColorHex |-> color, SortMode |-> ""]))
    /\ items' = IF titled THEN autoSavedGroup(items, groups', currentEditItemID, name)
                ELSE items
    /\ last' = [op |-> "createGroup", pre |-> items, arg |-> [name |-> name, now |-> now]]
    /\ ops' = ops + 1
    /\ UNCHANGED <<currentEditItemID, currentViewDate, activeCalendarName, calendarFiles, exportedFile>>

\* showGroupForm(&grp), "Save Changes" with a name that is not in use
editGroup(g, name, color, titled) ==
    /\ ops < MaxOps
    /\ \A i \in 1..Len(groups) : groups[i].Name # name
    /\ groups' = updateGroupDropdown(
                    [groups EXCEPT ![CHOOSE i \in 1..Len(groups) :
                                        /\ groups[i].ID = groups[g].ID
                                        /\ \A j \in 1..(i - 1) : groups[j].ID # groups[g].ID] =
                                    [@ EXCEPT !.Name = name, !.ColorHex = color]])
    /\ items' = IF titled THEN autoSavedGroup(items, groups', currentEditItemID, name)
                ELSE items
    /\ last' = [op |-> "editGroup", pre |-> items, arg |-> [group |-> groups[g], name |-> name]]
    /\ ops' = ops + 1
    /\ UNCHANGED <<currentEditItemID, currentViewDate, activeCalendarName, calendarFiles, exportedFile>>

\* the colour of an item's block in refreshCalendar: the colour of its group
\* (written as the group's ColorHex), gray when no group has its GroupID, and
\* light gray for a completed item
FallbackColor == "gray-100"

blockColor(grps, item) ==
    LET gs == {i \in 1..Len(grps) : grps[i].ID = item.GroupID}
    IN  IF item.Completed THEN "rgb-200-200-200"
        ELSE IF gs = {} THEN FallbackColor
        ELSE grps[CHOOSE i \in gs : \A j \in gs : j <= i].ColorHex

(***************************************************************************)
(* Calendars: switchCalendar, called by the calendar select of the         *)
(* settings dialog and by "Create" of the calendar manager.                *)
(***************************************************************************)
\* the files of every calendar but `name` once the active calendar is left
filesWithout(name) ==
    [n \in CalendarNames \ {name} |->
        IF n = activeCalendarName THEN [items |-> items, groups |-> groups]
        ELSE calendarFiles[n]]

\* switchCalendar(name) while the sidebar holds sb: the items and groups of
\* `name` are loaded and the groups sorted; with a group to select, the group
\* select is set to the first one, whose change callback is autoSave, run with
\* the currentEditItemID of the calendar just left; then resetSidebar
switchCalendar(name, sb) ==
    LET loaded == calendarFiles[name]
        sorted == updateGroupDropdown(loaded.groups)
    IN  /\ ops < MaxOps
        /\ name # activeCalendarName
        /\ activeCalendarName' = name
        /\ calendarFiles' = filesWithout(name)
        /\ groups' = sorted
        /\ items' = IF Len(sorted) > 0
                    THEN autoSavedWith(loaded.items, sorted, currentEditItemID,
                                       [sb EXCEPT !.Group = sorted[1].Name])
                    ELSE loaded.items
        /\ currentEditItemID' = NoID
        /\ last' = [op |-> "switchCalendar", pre |-> items,
                    arg |-> [name |-> name, sb |-> sb, held |-> currentEditItemID,
                             loaded |-> loaded.items]]
        /\ ops' = ops + 1
        /\ UNCHANGED <<currentViewDate, exportedFile>>

(***************************************************************************)
(* Deleting: performSmartDelete.                                           *)
(***************************************************************************)
\* the loops that rebuild `items` without the occurrences to remove
keepNotID(its, targetID) == SelectSeq(its, LAMBDA i : i.ID # targetID)

\* the target's own start counted as earlier
keepOthersAndEarlier_TargetKept(its, targetItem) ==
    SelectSeq(its, LAMBDA i : \/ i.SeriesID # targetItem.SeriesID
                              \/ ~After(Parse(i.Start), Parse(targetItem.Start)))

\* "This + Future" keeps the other series and the earlier starts
keepOthersAndEarlier(its, targetItem) ==
    SelectSeq(its, LAMBDA i : \/ i.SeriesID # targetItem.SeriesID
                              \/ Before(Parse(i.Start), Parse(targetItem.Start)))

\* "All" keeping the occurrences before the target, as "This + Future" does
keepOtherSeries_EarlierKept(its, targetItem) ==
    SelectSeq(its, LAMBDA i : \/ i.SeriesID # targetItem.SeriesID
                              \/ Before(Parse(i.Start), Parse(targetItem.Start)))

keepOtherSeries(its, targetItem) ==
    SelectSeq(its, LAMBDA i : i.SeriesID # targetItem.SeriesID)

\* "This Only" wired to the loop of "All"
afterDelete_ThisOnlyAsAll(its, targetID, choice) ==
    LET targetItem == its[CHOOSE i \in {k \in 1..Len(its) : its[k].ID = targetID} :
                            \A j \in {k \in 1..Len(its) : its[k].ID = targetID} : i <= j]
    IN  CASE choice = "Cancel"            -> its
          [] targetItem.SeriesID = NoID   -> SelectSeq(its, LAMBDA i : i.ID # targetID)
          [] choice = "This Only"         -> SelectSeq(its, LAMBDA i : i.SeriesID # targetItem.SeriesID)
          [] choice = "This + Future"     ->
                SelectSeq(its, LAMBDA i : \/ i.SeriesID # targetItem.SeriesID
                                          \/ Before(Parse(i.Start), Parse(targetItem.Start)))
          [] choice = "All"               -> SelectSeq(its, LAMBDA i : i.SeriesID # targetItem.SeriesID)

\* the test for an empty series identity left out
afterDelete_NoSeriesTest(its, targetID, choice) ==
    LET targetItem == its[CHOOSE i \in {k \in 1..Len(its) : its[k].ID = targetID} :
                            \A j \in {k \in 1..Len(its) : its[k].ID = targetID} : i <= j]
    IN  CASE choice = "Cancel"            -> its
          [] choice = "This Only"         -> SelectSeq(its, LAMBDA i : i.ID # targetID)
          [] choice = "This + Future"     ->
                SelectSeq(its, LAMBDA i : \/ i.SeriesID # targetItem.SeriesID
                                          \/ Before(Parse(i.Start), Parse(targetItem.Start)))
          [] choice = "All"               -> SelectSeq(its, LAMBDA i : i.SeriesID # targetItem.SeriesID)

\* the store after the dialog is answered with `choice`: a button of the
\* "Delete Recurring" dialog, or "Cancel".  An item of no series gets the plain
\* confirmation instead, where every answer but "Cancel" removes it by ID.
\* Without an item of that ID the handler returns before any dialog
afterDelete(its, targetID, choice) ==
    LET targetItem == its[firstIndexOf(its, targetID)]
    IN  CASE choice = "Cancel"            -> its
          [] indexesOf(its, targetID) = {} -> its
          [] targetItem.SeriesID = NoID   -> keepNotID(its, targetID)
          [] choice = "This Only"         -> keepNotID(its, targetID)
          [] choice = "This + Future"     -> keepOthersAndEarlier(its, targetItem)
          [] choice = "All"               -> keepOtherSeries(its, targetItem)

\* the delete button of the sidebar or "Delete" of an item's context menu, and the
\* answer to its dialog; finish() resets the sidebar.  A dialog that is
\* cancelled changes nothing.
performSmartDelete(targetID, choice) ==
    /\ ops < MaxOps
    /\ items' = afterDelete(items, targetID, choice)
    /\ currentEditItemID' = IF choice = "Cancel" \/ indexesOf(items, targetID) = {}
                            THEN currentEditItemID ELSE NoID
    /\ last' = [op |-> "delete", pre |-> items,
                arg |-> [targetID |-> targetID, choice |-> choice]]
    /\ ops' = ops + 1
    /\ UNCHANGED <<groups, currentViewDate, activeCalendarName, calendarFiles, exportedFile>>

(***************************************************************************)
(* Importing: importICS.  A property value is <<"datetime", y, m, d, hh,   *)
(* mm>> for "YYYYMMDDTHHMM00", <<"date", y, m, d>> for "YYYYMMDD",         *)
(* <<"utc", ...>> for a date-time followed by "Z", and <<>> when the event *)
(* has no such property; a summary is <<text>>, or <<>> when there is none.*)
(***************************************************************************)
\* time.Parse("20060102T150405", v), the zero time on an error
parseDateTime(v) ==
    IF Len(v) > 0 /\ v[1] = "datetime"
    THEN <<DaysFromCivil(v[2], v[3], v[4]), v[5] * 3600 + v[6] * 60>>
    ELSE ZeroTime

\* time.Parse("20060102", v), the zero time on an error
parseDate(v) ==
    IF Len(v) > 0 /\ v[1] = "date" THEN <<DaysFromCivil(v[2], v[3], v[4]), 0>>
    ELSE ZeroTime

\* sTime: the first layout, and the second when the first fails
importStart(v) == IF Len(v) > 0 /\ v[1] = "datetime" THEN parseDateTime(v) ELSE parseDate(v)

\* eTime: sTime without a DTEND; else the first layout, and the second when
\* the first gives the zero time
importEnd(v, sTime) ==
    IF v = <<>> THEN sTime
    ELSE IF parseDateTime(v) = ZeroTime THEN parseDate(v) ELSE parseDateTime(v)

importedItem(event, now, count) ==
    LET sTime == importStart(event.start)
        eTime == importEnd(event.end, sTime)
    IN  [ID        |-> <<"imp", now, count>>,
         Title     |-> event.summary[1],
         Start     |-> Format(sTime),
         End       |-> Format(eTime),
         Type      |-> IF ~Equal(eTime, sTime) /\ eTime # ZeroTime
                       THEN TypeEvent ELSE TypeTask,
         GroupID   |-> IF Len(groups) > 0 THEN groups[1].ID ELSE "",
         Completed |-> FALSE,
         SeriesID  |-> NoID]

\* the loop over parsedCal.Events(): an event without a summary (<<>>) or
\* without a start is skipped and does not count
RECURSIVE importedItems(_, _, _)
importedItems(events, now, count) ==
    IF events = <<>> THEN <<>>
    ELSE IF Head(events).summary = <<>> \/ Head(events).start = <<>>
         THEN importedItems(Tail(events), now, count)
         ELSE <<importedItem(Head(events), now, count)>>
              \o importedItems(Tail(events), now, count + 1)

\* importICS storing the imported items in place of the store
importICS_Replaces(events, now) ==
    /\ ops < MaxOps
    /\ items' = importedItems(events, now, 0)
    /\ last' = [op |-> "import", pre |-> items, arg |-> [events |-> events, now |-> now]]
    /\ ops' = ops + 1
    /\ UNCHANGED <<groups, currentEditItemID, currentViewDate, activeCalendarName, calendarFiles, exportedFile>>

importICS(events, now) ==
    /\ ops < MaxOps
    /\ items' = items \o importedItems(events, now, 0)
    /\ last' = [op |-> "import", pre |-> items, arg |-> [events |-> events, now |-> now]]
    /\ ops' = ops + 1
    /\ UNCHANGED <<groups, currentEditItemID, currentViewDate, activeCalendarName, calendarFiles, exportedFile>>

\* the offsets of time.Local from UTC, in seconds
ZoneOffsets == {0, 3600}

\* Event.SetStartAt and SetEndAt of golang-ical: the time in UTC, written
\* with the layout "20060102T150405Z"
icalTimestampUtc(t, offset) ==
    LET u == Format(Add(t, 0 - offset))
    IN  <<"utc", u[1], u[2], u[3], u[4], u[5]>>

\* gName[id]: the name of the group with that ID, "" when there is none
gName(id) ==
    LET gs == {i \in 1..Len(groups) : groups[i].ID = id}
    IN  IF gs = {} THEN "" ELSE groups[CHOOSE i \in gs : \A j \in gs : j <= i].Name

\* the events exportICS adds to the calendar, one for each item
exportedEvents(its, offset) ==
    [k \in 1..Len(its) |->
        [summary |-> <<"[" \o gName(its[k].GroupID) \o "] " \o its[k].Title>>,
         start   |-> icalTimestampUtc(Parse(its[k].Start), offset),
         end     |-> icalTimestampUtc(Parse(its[k].End), offset)]]

\* "Export .ICS" with the file dialog confirmed
exportICS(offset) ==
    /\ ops < MaxOps
    /\ exportedFile' = exportedEvents(items, offset)
    /\ last' = [op |-> "export", pre |-> items, arg |-> [offset |-> offset]]
    /\ ops' = ops + 1
    /\ UNCHANGED <<items, groups, currentEditItemID, currentViewDate, activeCalendarName,
                   calendarFiles>>

(***************************************************************************)
(* Spec: the store under every handler that writes it, MaxOps operations   *)
(* long, with short series.                                                *)
(***************************************************************************)
\* a task alone, a task repeated every MaxCount months, an event over several
\* days repeated every 2 * MaxCount months, and a sidebar with no title
StoreSidebarInputs ==
    LET task  == [sidebarDefault EXCEPT !.Type = "Task"]
        event == [sidebarDefault EXCEPT !.Type = "Event", !.EndDate = <<2024, 3, 31>>,
                                        !.EndTime = <<11, 55, "PM">>]
    IN  {task,
         [task  EXCEPT !.RecChecked = TRUE, !.RecUnit = "Month(s)",
                       !.RecNum = <<"digits", MaxCount>>],
         [event EXCEPT !.RecChecked = TRUE, !.RecUnit = "Month(s)",
                       !.RecNum = <<"digits", 2 * MaxCount>>],
         [task  EXCEPT !.Title = ""]}

\* what the sidebar may hold while an item is edited: another title and group,
\* a task, and an event that ends before it starts
EditSidebarInputs ==
    withTimes([sidebarDefault EXCEPT !.Title = "b", !.Group = "Work"],
              {<<2024, 9, 5>>}, {<<12, 0, "AM">>},
              {<<<<2024, 3, 5>>, <<9, 0, "AM">>>>})

\* the events of an imported file: one without a summary, one with a date and
\* a later date-time, one with UTC date-times, one with a local start and a
\* UTC end
ImportInputs ==
    {<<[summary |-> <<>>, start |-> <<"date", 2024, 3, 5>>, end |-> <<>>],
       [summary |-> <<"y">>, start |-> <<"date", 2024, 3, 5>>,
        end |-> <<"datetime", 2024, 3, 6, 9, 0>>],
       [summary |-> <<"z">>, start |-> <<"utc", 2024, 3, 5, 9, 0>>,
        end |-> <<"utc", 2024, 3, 5, 10, 0>>],
       [summary |-> <<"w">>, start |-> <<"datetime", 2024, 3, 5, 9, 0>>,
        end |-> <<"utc", 2024, 3, 5, 10, 0>>]>>}

Clock == 1..MaxClock

addItem == \E sb \in StoreSidebarInputs, now \in Clock : handleSidebarAction(sb, now)

clickItem ==
    \E i \in 1..Len(items) :
        \E stale \in EditSidebarInputs \cup {sidebarShowing(sidebarDefault, items[i])} :
            startEditing(i, stale)

editItem == \E sb \in EditSidebarInputs : autoSave(sb)

doneEditing == resetSidebar

toggleItem == \E i \in 1..Len(items) : toggleCompleted(i)

moveItem == \E i \in 1..Len(items), g \in 1..Len(groups) : showMoveDialog(i, groups[g].Name)

deleteItem ==
    \E i \in 1..Len(items), choice \in {"This Only", "This + Future", "All", "Cancel"} :
        performSmartDelete(items[i].ID, choice)

importFile == \E events \in ImportInputs, now \in Clock : importICS(events, now)

Next ==
    \/ addItem
    \/ clickItem
    \/ editItem
    \/ doneEditing
    \/ toggleItem
    \/ moveItem
    \/ deleteItem
    \/ importFile

Spec == Init /\ [][Next]_vars

(***************************************************************************)
(* SpecSeries: one recurring create on the empty store, then edits, moves, *)
(* toggles and deletes of its occurrences.  An occurrence is clicked while *)
(* the sidebar shows the values it has, as it does for the base occurrence *)
(* right after the create, so that startEditing's setters write nothing    *)
(* new and every change of a field is an edit the user makes.              *)
(***************************************************************************)
clickItemInSync ==
    \E i \in 1..Len(items) : startEditing(i, sidebarShowing(sidebarDefault, items[i]))

addSeries ==
    \E sb \in {x \in StoreSidebarInputs : x.RecChecked}, now \in Clock :
        /\ items = <<>>
        /\ handleSidebarAction(sb, now)

NextSeries ==
    \/ addSeries
    \/ clickItemInSync
    \/ editItem
    \/ doneEditing
    \/ toggleItem
    \/ moveItem
    \/ deleteItem

SpecSeries == Init /\ [][NextSeries]_vars

(***************************************************************************)
(* SpecGroups: the store under every handler together with the group       *)
(* manager: groups are deleted, created and renamed while items exist and  *)
(* while one is edited.                                                    *)
(***************************************************************************)
\* a task, the same with the group select showing "+ Create New Group" (no
\* group selected), the same without a title, and a task repeated every
\* 2 * MaxCount months
GroupSidebarInputs ==
    {sidebarDefault,
     [sidebarDefault EXCEPT !.Group = "+ Create New Group"],
     [sidebarDefault EXCEPT !.Title = ""],
     [sidebarDefault EXCEPT !.RecChecked = TRUE, !.RecUnit = "Month(s)",
                            !.RecNum = <<"digits", 2 * MaxCount>>]}

addItemInGroup == \E sb \in GroupSidebarInputs, now \in Clock : handleSidebarAction(sb, now)

removeGroup == \E g \in 1..Len(groups), selected \in BOOLEAN : deleteGroup(g, selected)

newGroup == \E now \in Clock, titled \in BOOLEAN : createGroup("Home", "#E74C3C", now, titled)

renameGroup == \E g \in 1..Len(groups), titled \in BOOLEAN : editGroup(g, "Zoo", "#E67E22", titled)

NextGroups ==
    \/ addItemInGroup
    \/ clickItem
    \/ editItem
    \/ doneEditing
    \/ toggleItem
    \/ moveItem
    \/ deleteItem
    \/ importFile
    \/ removeGroup
    \/ newGroup
    \/ renameGroup

SpecGroups == Init /\ [][NextGroups]_vars

(***************************************************************************)
(* SpecSwitch: two calendars.  Items are created, clicked, edited and      *)
(* deleted in either, and the other calendar is opened while an item of    *)
(* this one may still be edited.                                           *)
(***************************************************************************)
\* a task alone and a task repeated every MaxCount months
SwitchSidebarInputs ==
    {sidebarDefault,
     [sidebarDefault EXCEPT !.RecChecked = TRUE, !.RecUnit = "Month(s)",
                            !.RecNum = <<"digits", MaxCount>>]}

addItemInCalendar == \E sb \in SwitchSidebarInputs, now \in Clock : handleSidebarAction(sb, now)

\* the other calendar is opened while the sidebar holds the values of an edit,
\* or an empty title entry
openCalendar ==
    \E name \in CalendarNames, sb \in EditSidebarInputs \cup {[sidebarDefault EXCEPT !.Title = ""]} :
        switchCalendar(name, sb)

NextSwitch ==
    \/ addItemInCalendar
    \/ clickItemInSync
    \/ editItem
    \/ doneEditing
    \/ deleteItem
    \/ openCalendar

SpecSwitch == Init /\ [][NextSwitch]_vars

(***************************************************************************)
(* SpecTransfer: items are created, edited and toggled, the store is       *)
(* exported and the exported file is imported.                             *)
(***************************************************************************)
\* a task and an event of one hour
TransferSidebarInputs ==
    {sidebarDefault,
     [sidebarDefault EXCEPT !.Type = "Event", !.EndTime = <<10, 0, "AM">>]}

addItemToExport == \E sb \in TransferSidebarInputs, now \in Clock : handleSidebarAction(sb, now)

exportStore == \E offset \in ZoneOffsets : exportICS(offset)

importExported == \E now \in Clock : Len(exportedFile) > 0 /\ importICS(exportedFile, now)

NextTransfer ==
    \/ addItemToExport
    \/ clickItemInSync
    \/ editItem
    \/ toggleItem
    \/ exportStore
    \/ importExported

SpecTransfer == Init /\ [][NextTransfer]_vars

(***************************************************************************)
(* What the last operation did, read from `last`.                          *)
(***************************************************************************)
\* the last operation was an "Add Item" that passed validation
lastAdded == last.op = "add" /\ Len(items) > Len(last.pre)

\* ... with "Recurring?" checked
lastAddedSeries == lastAdded /\ last.arg.sb.RecChecked

\* the base occurrence it appended, and the generated ones after it
addedBase == items[Len(last.pre) + 1]

addedGenerated == SubSeq(items, Len(last.pre) + 2, Len(items))

\* the k-th occurrence of the batch, counting the base as the 0-th
addedAt(k) == items[Len(last.pre) + 1 + k]

\* the day number of a stored timestamp
dayOf(s) == Parse(s)[1]

(***************************************************************************)
(* C1: a recurring create generates at most 100 occurrences besides the    *)
(* base, and none of them starts after the base's start plus one year.     *)
(***************************************************************************)
C1_GeneratedWithinCapAndYear ==
    lastAddedSeries =>
        /\ Len(addedGenerated) <= 100
        /\ \A k \in 1..Len(addedGenerated) :
              ~After(Parse(addedGenerated[k].Start),
                     AddDate(Parse(addedBase.Start), 1, 0, 0))

\* the cap is reached (a daily rule), and a rule whose last occurrence starts
\* exactly one year after the base exists too (a yearly rule)
C1_Witness ==
    /\ lastAddedSeries
    /\ Len(addedGenerated) = 100
    /\ last.arg.sb.RecUnit = "Day(s)"

(***************************************************************************)
(* C6: under an Interval rule with count >= 1, of any unit, every          *)
(* generated occurrence starts strictly after its predecessor (the first   *)
(* one after the base) and lasts as long as the base.                      *)
(***************************************************************************)
C6_IntervalIncreasingSameDuration ==
    (/\ lastAddedSeries
     /\ last.arg.sb.RecMode = "Interval"
     /\ Atoi(last.arg.sb.RecNum) >= 1) =>
        \A k \in 1..Len(addedGenerated) :
            /\ Before(Parse(addedAt(k - 1).Start), Parse(addedAt(k).Start))
            /\ Sub(Parse(addedAt(k).End), Parse(addedAt(k).Start))
                 = Sub(Parse(addedBase.End), Parse(addedBase.Start))

\* a monthly rule from the 31st of January, on an event that lasts several days
C6_Witness ==
    /\ lastAddedSeries
    /\ last.arg.sb.RecMode = "Interval"
    /\ last.arg.sb.RecUnit = "Month(s)"
    /\ Atoi(last.arg.sb.RecNum) = 2
    /\ addedBase.Start = <<2024, 1, 31, 23, 55>>
    /\ addedBase.End = <<2024, 3, 5, 9, 0>>
    /\ Len(addedGenerated) >= 3

(***************************************************************************)
(* C7: under a SpecificWeekday rule every generated occurrence falls on    *)
(* the configured weekday, and consecutive generated dates are 7 days      *)
(* apart for "Every" and 14 days apart for "Every Other".                  *)
(***************************************************************************)
\* the weekday of a day number, counted from Sunday 2024-03-03
weekdayName(day) ==
    <<"Sunday", "Monday", "Tuesday", "Wednesday", "Thursday", "Friday", "Saturday">>
        [((day - DaysFromCivil(2024, 3, 3)) % 7) + 1]

C7_SpecificWeekdaySpacing ==
    (lastAddedSeries /\ last.arg.sb.RecMode = "Specific Day") =>
        /\ \A k \in 1..Len(addedGenerated) :
              weekdayName(dayOf(addedAt(k).Start)) = last.arg.sb.RecDay
        /\ \A k \in 2..Len(addedGenerated) :
              dayOf(addedAt(k).Start) - dayOf(addedAt(k - 1).Start)
                 = IF last.arg.sb.RecOrdinal = "Every Other" THEN 14 ELSE 7

\* every other Sunday from a base that is itself a Sunday (2024-03-31)
C7_Witness ==
    /\ lastAddedSeries
    /\ last.arg.sb.RecMode = "Specific Day"
    /\ last.arg.sb.RecOrdinal = "Every Other"
    /\ last.arg.sb.RecDay = "Sunday"
    /\ addedBase.Start = <<2024, 3, 31, 0, 0>>
    /\ Len(addedGenerated) >= 20
    /\ addedAt(1).Start = <<2024, 4, 14, 0, 0>>

(***************************************************************************)
(* C8: an occurrence with start <= end is shown in the cell of a day       *)
(* exactly when that day lies between the day of its start and the day of  *)
(* its end, both included.                                                 *)
(***************************************************************************)
\* a civil date <<y, m, d>> is on or before another
dateLeq(a, b) ==
    \/ a[1] < b[1]
    \/ a[1] = b[1] /\ a[2] < b[2]
    \/ a[1] = b[1] /\ a[2] = b[2] /\ a[3] <= b[3]

dateOf(s) == <<s[1], s[2], s[3]>>

\* a stored timestamp <<y, m, d, hh, mm>> is on or before another
stampLeq(a, b) ==
    \/ dateOf(a) # dateOf(b) /\ dateLeq(dateOf(a), dateOf(b))
    \/ dateOf(a) = dateOf(b) /\ (a[4] < b[4] \/ (a[4] = b[4] /\ a[5] <= b[5]))

C8_ShownOnExactlyTheSpannedDays ==
    \A i \in 1..Len(items) :
        stampLeq(items[i].Start, items[i].End) =>
            \A d \in 1..daysInMonth :
                (i \in calendarCells[d]) <=>
                    /\ dateLeq(dateOf(items[i].Start), <<viewYear, viewMonth, d>>)
                    /\ dateLeq(<<viewYear, viewMonth, d>>, dateOf(items[i].End))

\* an event from February into March that ends at 00:00 of the 1st of March is
\* shown on the 1st of March and not on the 2nd; and so is a task at 00:00
C8_Witness ==
    /\ viewMonth = 3
    /\ Len(items) = 1
    /\ items[1].Type = TypeEvent
    /\ items[1].Start = <<2024, 2, 29, 23, 55>>
    /\ items[1].End = <<2024, 3, 1, 0, 0>>
    /\ 1 \in calendarCells[1]
    /\ ~(1 \in calendarCells[2])

(***************************************************************************)
(* Deletions, read from `last`.                                            *)
(***************************************************************************)
\* the last operation was a delete answered with `choice`
lastDeleted(choice) == last.op = "delete" /\ last.arg.choice = choice

\* the occurrence the delete found for its target identity
deleteTarget ==
    last.pre[CHOOSE i \in 1..Len(last.pre) :
                /\ last.pre[i].ID = last.arg.targetID
                /\ \A j \in 1..(i - 1) : last.pre[j].ID # last.arg.targetID]

\* the members of a set of indexes, in increasing order
RECURSIVE ascending(_)
ascending(K) ==
    IF K = {} THEN <<>>
    ELSE LET m == CHOOSE i \in K : \A j \in K : i <= j
         IN  <<m>> \o ascending(K \ {m})

\* the occurrences of seq at the indexes K, unchanged and in their order
restrictedTo(seq, K) == [j \in 1..Cardinality(K) |-> seq[ascending(K)[j]]]

sameSeries(a, b) == a.SeriesID = b.SeriesID

(***************************************************************************)
(* C2: "This + Future" on a target of a series removes exactly the         *)
(* occurrences of that series whose start is not before the target's, and  *)
(* keeps the earlier ones of the series and every occurrence of another or *)
(* of no series, unchanged and in order.                                   *)
(***************************************************************************)
C2_ThisAndFutureRemovesTargetAndLater ==
    (lastDeleted("This + Future") /\ deleteTarget.SeriesID # NoID) =>
        items = restrictedTo(last.pre,
                    {i \in 1..Len(last.pre) :
                        ~(/\ sameSeries(last.pre[i], deleteTarget)
                          /\ stampLeq(deleteTarget.Start, last.pre[i].Start))})

\* the target is the 3rd of a series of 5 in start order, next to an occurrence
\* outside the series: 3 are removed, the first two and the outsider stay
C2_Witness ==
    /\ lastDeleted("This + Future")
    /\ deleteTarget.SeriesID # NoID
    /\ Cardinality({i \in 1..Len(last.pre) : sameSeries(last.pre[i], deleteTarget)}) = 5
    /\ Cardinality({i \in 1..Len(last.pre) :
                       /\ sameSeries(last.pre[i], deleteTarget)
                       /\ ~stampLeq(deleteTarget.Start, last.pre[i].Start)}) = 2
    /\ \E i \in 1..Len(last.pre) : ~sameSeries(last.pre[i], deleteTarget)
    /\ Len(items) = Len(last.pre) - 3
    /\ Cardinality({i \in 1..Len(items) : sameSeries(items[i], deleteTarget)}) = 2

(***************************************************************************)
(* C3: "All" on a target of a series of N occurrences removes exactly      *)
(* those N, and leaves every occurrence of another or of no series in the  *)
(* store, unchanged and in the same relative order.                        *)
(***************************************************************************)
C3_AllRemovesTheSeries ==
    (lastDeleted("All") /\ deleteTarget.SeriesID # NoID) =>
        /\ items = restrictedTo(last.pre,
                       {i \in 1..Len(last.pre) : ~sameSeries(last.pre[i], deleteTarget)})
        /\ Len(items) = Len(last.pre)
              - Cardinality({i \in 1..Len(last.pre) : sameSeries(last.pre[i], deleteTarget)})

\* a series of 5 removed from between an occurrence of no series and another series
C3_Witness ==
    /\ lastDeleted("All")
    /\ deleteTarget.SeriesID # NoID
    /\ Cardinality({i \in 1..Len(last.pre) : sameSeries(last.pre[i], deleteTarget)}) = 5
    /\ Len(items) = Len(last.pre) - 5
    /\ Len(items) >= 1
    /\ \E i \in 1..Len(items) : items[i].SeriesID # NoID

(***************************************************************************)
(* C4: "This Only" removes exactly the occurrence whose identity is the    *)
(* target identity, whether or not it is part of a series; every           *)
(* occurrence of another identity, the target's siblings included, stays   *)
(* in the store with all its fields, in order.                             *)
(***************************************************************************)
C4_ThisOnlyRemovesTheTargetAlone ==
    lastDeleted("This Only") =>
        /\ items = restrictedTo(last.pre,
                       {i \in 1..Len(last.pre) : last.pre[i].ID # last.arg.targetID})
        /\ \A i \in 1..Len(items) : items[i].ID # last.arg.targetID

\* the middle occurrence of a series removed, its siblings before and after it kept
C4_Witness ==
    /\ lastDeleted("This Only")
    /\ deleteTarget.SeriesID # NoID
    /\ Len(items) = Len(last.pre) - 1
    /\ Cardinality({i \in 1..Len(items) : sameSeries(items[i], deleteTarget)}) = 4
    /\ \E i \in 1..Len(items) :
          sameSeries(items[i], deleteTarget) /\ ~stampLeq(items[i].Start, deleteTarget.Start)
    /\ \E i \in 1..Len(items) :
          sameSeries(items[i], deleteTarget) /\ ~stampLeq(deleteTarget.Start, items[i].Start)

(***************************************************************************)
(* C5: a delete whose target has an empty series identity removes only the *)
(* target, whatever scope is asked for; the other occurrences of no series *)
(* are not removed with it.                                                *)
(***************************************************************************)
C5_NoSeriesTargetRemovedAlone ==
    (/\ last.op = "delete"
     /\ last.arg.choice # "Cancel"
     /\ deleteTarget.SeriesID = NoID) =>
        /\ items = restrictedTo(last.pre,
                       {i \in 1..Len(last.pre) : last.pre[i].ID # last.arg.targetID})
        /\ \A i \in 1..Len(last.pre) :
              (last.pre[i].SeriesID = NoID /\ last.pre[i].ID # last.arg.targetID)
                 => \E j \in 1..Len(items) : items[j] = last.pre[i]

\* "All" asked for on one of three occurrences of no series: the other two stay
C5_Witness ==
    /\ lastDeleted("All")
    /\ deleteTarget.SeriesID = NoID
    /\ Cardinality({i \in 1..Len(last.pre) : last.pre[i].SeriesID = NoID}) = 3
    /\ Cardinality({i \in 1..Len(items) : items[i].SeriesID = NoID}) = 2
    /\ Len(items) = Len(last.pre) - 1

(***************************************************************************)
(* C9: the identities of the occurrences in the store are pairwise         *)
(* distinct, also across expansions and across creations that read the     *)
(* same clock value.                                                       *)
(***************************************************************************)
C9_IdentitiesPairwiseDistinct ==
    \A i, j \in 1..Len(items) : i # j => items[i].ID # items[j].ID

(***************************************************************************)
(* C10: a recurring create gives the base and every generated occurrence   *)
(* one non-empty series identity, which is the identity of no occurrence   *)
(* in the store; a create without recurrence gives its occurrence the      *)
(* empty series identity.                                                  *)
(***************************************************************************)
C10_SeriesIdentityMinted ==
    lastAdded =>
        IF last.arg.sb.RecChecked
        THEN /\ addedBase.SeriesID # NoID
             /\ \A k \in 1..Len(addedGenerated) : addedGenerated[k].SeriesID = addedBase.SeriesID
             /\ \A i \in 1..Len(items) : items[i].ID # addedBase.SeriesID
        ELSE /\ Len(items) = Len(last.pre) + 1
             /\ addedBase.SeriesID = NoID

\* a series of 5 appended to a store that holds imported and created occurrences
C10_Witness ==
    /\ lastAddedSeries
    /\ Len(addedGenerated) = 4
    /\ Len(last.pre) >= 3
    /\ \E i \in 1..Len(last.pre) : last.pre[i].ID[1] = "imp"
    /\ \E i \in 1..Len(last.pre) : last.pre[i].ID[1] = "item"

(***************************************************************************)
(* Edits, read from `last`.                                                *)
(***************************************************************************)
\* the last operation wrote an occurrence from the sidebar or moved one
lastEdited == last.op \in {"autoSave", "startEditing", "move"}

\* the identity of the occurrence the last edit was asked for
editedID ==
    CASE last.op = "autoSave"     -> currentEditItemID
      [] last.op = "startEditing" -> last.pre[last.arg.index].ID
      [] last.op = "move"         -> last.pre[last.arg.index].ID

(***************************************************************************)
(* C11: an edit of one occurrence (auto-save, move to a group) changes     *)
(* fields of that occurrence only; no other occurrence changes in any      *)
(* field, and identity and series identity of every occurrence, the edited *)
(* one included, stay as they were, so that an "All" delete of its series  *)
(* still removes it.                                                       *)
(***************************************************************************)
C11_EditChangesTheEditedOccurrenceOnly ==
    /\ lastEdited =>
          /\ Len(items) = Len(last.pre)
          /\ \A i \in 1..Len(items) :
                /\ items[i].ID = last.pre[i].ID
                /\ items[i].SeriesID = last.pre[i].SeriesID
                /\ last.pre[i].ID # editedID => items[i] = last.pre[i]
    /\ (lastDeleted("All") /\ deleteTarget.SeriesID # NoID) =>
          \A i \in 1..Len(items) : items[i].SeriesID # deleteTarget.SeriesID

\* one occurrence of a series of 5 got another title and start; its 4 siblings
\* are as they were
C11_Witness ==
    /\ lastEdited
    /\ \E i \in 1..Len(items) :
          /\ items[i].Title # last.pre[i].Title
          /\ items[i].Start # last.pre[i].Start
          /\ items[i].SeriesID # NoID
          /\ Cardinality({j \in 1..Len(items) :
                            /\ j # i
                            /\ items[j].SeriesID = items[i].SeriesID
                            /\ items[j] = last.pre[j]}) = 4

(***************************************************************************)
(* Series as a whole.                                                      *)
(***************************************************************************)
\* end minus start of an occurrence, in seconds
durationOf(item) == Sub(Parse(item.End), Parse(item.Start))

\* two occurrences with the same title, group, kind and duration
alike(a, b) ==
    /\ a.Title = b.Title
    /\ a.GroupID = b.GroupID
    /\ a.Type = b.Type
    /\ durationOf(a) = durationOf(b)

\* any two occurrences of `its` sharing a non-empty series identity are alike
seriesAlike(its) ==
    \A i, j \in 1..Len(its) :
        (its[i].SeriesID # NoID /\ its[i].SeriesID = its[j].SeriesID) => alike(its[i], its[j])

stampLess(a, b) == stampLeq(a, b) /\ a # b

\* within each series of `its` the starts strictly increase in store order
seriesIncreasing(its) ==
    \A i, j \in 1..Len(its) :
        (i < j /\ its[i].SeriesID # NoID /\ its[i].SeriesID = its[j].SeriesID)
            => stampLess(its[i].Start, its[j].Start)

(***************************************************************************)
(* C12 as stated: in every reachable state of the store, any two           *)
(* occurrences sharing a non-empty series identity have the same title,    *)
(* group, kind and duration.                                               *)
(***************************************************************************)
C12_SeriesMembersAlike == seriesAlike(items)

(***************************************************************************)
(* C12 as amended: the occurrences appended by one recurring create have   *)
(* the same title, group, kind and duration, and a delete, a completion    *)
(* toggle and an import keep every series alike that was.                  *)
(***************************************************************************)
C12_SeriesMembersAlikeWhenCreated ==
    /\ lastAddedSeries =>
          \A k \in 1..Len(addedGenerated) : alike(addedBase, addedGenerated[k])
    /\ (last.op \in {"delete", "toggle", "import"} /\ seriesAlike(last.pre))
          => seriesAlike(items)

\* an event over several days repeated: base and two generated occurrences, all
\* 26 days long
C12_Witness ==
    /\ lastAddedSeries
    /\ Len(addedGenerated) = 2
    /\ addedBase.Type = TypeEvent
    /\ durationOf(addedBase) > SecondsPerDay

(***************************************************************************)
(* C13 as stated: in every reachable state of the store, within each       *)
(* series the starts strictly increase in store order, so that no two      *)
(* occurrences of a series have the same start.                            *)
(***************************************************************************)
C13_SeriesStartsIncreasing == seriesIncreasing(items)

(***************************************************************************)
(* C13 as amended: the occurrences appended by one recurring create have   *)
(* strictly increasing starts in store order, and a delete, a completion   *)
(* toggle, a move and an import keep every series increasing that was.     *)
(***************************************************************************)
C13_SeriesStartsIncreasingWhenCreated ==
    /\ lastAddedSeries =>
          /\ stampLess(addedBase.Start, addedGenerated[1].Start)
          /\ \A k \in 1..(Len(addedGenerated) - 1) :
                stampLess(addedGenerated[k].Start, addedGenerated[k + 1].Start)
    /\ (last.op \in {"delete", "toggle", "move", "import"} /\ seriesIncreasing(last.pre))
          => seriesIncreasing(items)

\* a series of 5: the base and four generated occurrences, three months apart
C13_Witness ==
    /\ lastAddedSeries
    /\ Len(addedGenerated) = 4
    /\ addedBase.Type = TypeTask

(***************************************************************************)
(* Create requests that are refused.                                       *)
(***************************************************************************)
\* the sidebar of the last "Add Item" had no title / showed no group's name
addedWithoutTitle == last.op = "add" /\ last.arg.sb.Title = ""

addedWithoutGroup == last.op = "add" /\ groupsNamed(last.arg.sb.Group) = {}

(***************************************************************************)
(* C14 as stated: a create request with an empty title, or with no group   *)
(* selected, is rejected: the store is left exactly as it was.             *)
(***************************************************************************)
C14_CreateWithoutTitleOrGroupRejected ==
    (addedWithoutTitle \/ addedWithoutGroup) => items = last.pre

(***************************************************************************)
(* C14 as amended: a create request with an empty title, or with no group  *)
(* selected while there is no group at all, leaves the store exactly as it *)
(* was; with a title, no group selected and at least one group, it is      *)
(* carried out with the first group of the list.                           *)
(***************************************************************************)
C14_CreateWithoutTitleOrAnyGroupRejected ==
    /\ (addedWithoutTitle \/ (addedWithoutGroup /\ Len(groups) = 0)) => items = last.pre
    /\ (addedWithoutGroup /\ ~addedWithoutTitle /\ Len(groups) > 0) =>
          /\ Len(items) > Len(last.pre)
          /\ SubSeq(items, 1, Len(last.pre)) = last.pre
          /\ \A i \in (Len(last.pre) + 1)..Len(items) : items[i].GroupID = groups[1].ID

\* every group was deleted; "Add Item" with a title then adds nothing
C14_Witness ==
    /\ last.op = "add"
    /\ last.arg.sb.Title # ""
    /\ Len(groups) = 0
    /\ items = last.pre

(***************************************************************************)
(* C15: for an Interval rule, a count below 1 and a count that is no       *)
(* number give exactly the generated sequence of count 1, and the base and *)
(* its siblings are stored.                                                *)
(***************************************************************************)
\* the last "Add Item" had an Interval rule whose count text is no number >= 1
addedWithBadCount ==
    /\ lastAddedSeries
    /\ last.arg.sb.RecMode = "Interval"
    /\ last.arg.sb.RecNum \notin {<<"digits", k>> : k \in 1..MaxCount}

ProbeIDs ==
    {<<"item", t>> : t \in Clock} \cup {<<"gen", t, 0>> : t \in Clock}
    \cup {<<"imp", t, 1>> : t \in Clock} \cup {NoID}

absentIDs == {id \in ProbeIDs : indexesOf(items, id) = {}}

\* a calendar was opened while the sidebar held the identity of an item that
\* is not in that calendar, with a title in the title entry
switchedHoldingAbsent ==
    /\ last.op = "switchCalendar"
    /\ last.arg.held # NoID
    /\ last.arg.sb.Title # ""
    /\ indexesOf(last.arg.loaded, last.arg.held) = {}

\* C16: for every identity that is not in the store, performSmartDelete's
\* result under every answer and autoSave's result under every sidebar content
\* are the store as it is (same items, same fields, same order); and when a
\* calendar is opened while the sidebar holds the identity of an item that is
\* not in it, the auto-save that the group select fires leaves the store as it
\* was loaded.
C16_AbsentIdentityIsNoOp ==
    /\ \A id \in absentIDs :
          /\ \A choice \in {"This Only", "This + Future", "All", "Cancel"} :
                afterDelete(items, id, choice) = items
          /\ \A sb \in EditSidebarInputs : autoSaved(items, id, sb) = items
    /\ switchedHoldingAbsent => items = last.arg.loaded

\* a calendar with no such item was opened while an item was edited
C16_Witness ==
    /\ switchedHoldingAbsent
    /\ Len(last.pre) > 0
    /\ indexesOf(last.pre, last.arg.held) # {}
    /\ absentIDs # {}

(***************************************************************************)
(* C17.  Only a confirmed delete removes an occurrence.                    *)
(***************************************************************************)
\* the last operation was a delete that was confirmed
lastConfirmedDelete == last.op = "delete" /\ last.arg.choice # "Cancel"

\* every identity of `pre` is in `post` at least as often as in `pre`
keepsIdentities(pre, post) ==
    \A i \in 1..Len(pre) :
        Cardinality(indexesOf(post, pre[i].ID)) >= Cardinality(indexesOf(pre, pre[i].ID))

\* C17: after every operation other than a confirmed delete (create, recurring
\* create, import, click, auto-save, done editing, completion toggle, move,
\* cancelled delete, group delete, group create, group rename, each with its
\* re-render) every identity that was in the store before the operation is
\* still in the store, as many times as before.
C17_OnlyConfirmedDeleteRemoves ==
    ~lastConfirmedDelete => keepsIdentities(last.pre, items)

\* an import into a store with items, and so with more items after it
C17_Witness ==
    /\ last.op = "import"
    /\ Len(last.pre) > 0
    /\ Len(items) > Len(last.pre)

(***************************************************************************)
(* C18.  Deleting a group leaves the items as they are.                    *)
(***************************************************************************)
\* C18: after a group is deleted the store is what it was before (the items
\* of the group keep every field, their GroupID now naming no group), and the
\* block of such an item that is not completed is drawn in the fallback colour.
C18_GroupDeleteLeavesItems ==
    last.op = "deleteGroup" =>
        /\ items = last.pre
        /\ \A i \in 1..Len(items) :
              (items[i].GroupID = last.arg.group.ID /\ ~items[i].Completed)
                  => blockColor(groups, items[i]) = FallbackColor

(***************************************************************************)
(* C19.  A task ends when it starts.                                       *)
(***************************************************************************)
\* C19: in every reachable state every item of type Task has its End equal to
\* its Start.
C19_TaskEndsAtStart ==
    \A i \in 1..Len(items) : items[i].Type = TypeTask => items[i].End = items[i].Start

(***************************************************************************)
(* C20.  Export, then import of the exported file.                         *)
(***************************************************************************)
\* the last operation imported the export of the store as it was before it
importedOwnExport ==
    /\ last.op = "import"
    /\ Len(last.pre) > 0
    /\ \E offset \in ZoneOffsets : last.arg.events = exportedEvents(last.pre, offset)

\* C20: when the export of the store is imported, the imported items are as
\* many as the exported ones and the k-th has the title, the start, the end
\* and the type of the k-th exported item, an event exactly when its start
\* differs from its end.
C20_ExportImportRoundTrip ==
    importedOwnExport =>
        /\ Len(items) = 2 * Len(last.pre)
        /\ \A k \in 1..Len(last.pre) :
              LET orig == last.pre[k]
                  imp  == items[Len(last.pre) + k]
              IN  /\ imp.Title = orig.Title
                  /\ imp.Start = orig.Start
                  /\ imp.End = orig.End
                  /\ imp.Type = orig.Type
                  /\ (imp.Type = TypeEvent) <=> (imp.Start # imp.End)

(***************************************************************************)
(* C21.  A rule of every n months.                                         *)
(***************************************************************************)
\* the last operation was a recurring create under an Interval rule of n >= 1
\* months, with a base that starts on the 28th of a month or earlier
addedMonthly ==
    /\ lastAddedSeries
    /\ last.arg.sb.RecMode = "Interval"
    /\ last.arg.sb.RecUnit = "Month(s)"
    /\ last.arg.sb.RecNum[1] = "digits"
    /\ last.arg.sb.RecNum[2] >= 1
    /\ addedBase.Start[3] <= 28

\* the stamp `months` calendar months after the stamp s: the same day of the
\* month and time of day
monthsAfter(s, months) ==
    LET total == s[1] * 12 + (s[2] - 1) + months
    IN  <<total \div 12, (total % 12) + 1, s[3], s[4], s[5]>>

\* C21: under an Interval rule of n >= 1 months and a base that starts on a
\* day of the month up to the 28th, the k-th generated occurrence starts k * n
\* calendar months after the base, on the same day of the month and at the
\* same time of day, and lasts as long as the base.
C21_MonthlyKeepsDayAndTime ==
    addedMonthly =>
        \A k \in 1..Len(addedGenerated) :
            /\ addedAt(k).Start = monthsAfter(addedBase.Start, k * last.arg.sb.RecNum[2])
            /\ durationOf(addedAt(k)) = durationOf(addedBase)

\* the base 2024-01-01 10:00 with count 1: 2024-02-01, 2024-03-01, 2024-04-01,
\* each at 10:00
C21_Witness ==
    /\ addedMonthly
    /\ last.arg.sb.RecNum[2] = 1
    /\ addedBase.Start = <<2024, 1, 1, 10, 0>>
    /\ Len(addedGenerated) >= 3
    /\ addedAt(1).Start = <<2024, 2, 1, 10, 0>>
    /\ addedAt(2).Start = <<2024, 3, 1, 10, 0>>
    /\ addedAt(3).Start = <<2024, 4, 1, 10, 0>>

(***************************************************************************)
(* C22.  The generation loop ends.                                         *)
(***************************************************************************)
\* the loop state of the last recurring create after MaxGenerated + 1 passes
\* from its start (a pass on an ended loop changes nothing)
loopEnd ==
    LET sb        == last.arg.sb
        baseStart == Parse(sVal(sb))
    IN  loopPasses(sb, addedBase, limitDate(baseStart),
                   Sub(Parse(eVal(sb)), baseStart), last.arg.now,
                   [currentDate |-> baseStart, count |-> 0, out |-> <<>>, done |-> FALSE],
                   MaxGenerated + 1)

\* the steps of the inner search from the date t: each step adds one day
searchSteps(t, targetDayStr) ==
    nextWeekdayDate(t, 0, targetWeekday(targetDayStr))[1] - t[1]

\* C22: for every rule of the sidebar a recurring create ends within
\* MaxGenerated + 1 passes of the loop: at the first computed date after the
\* base start plus one year, every appended occurrence starting no later than
\* that, or with MaxGenerated occurrences generated; the search for the
\* weekday takes at most 7 steps from every date it starts at; and the store
\* is then the store before, the base and the generated occurrences.
C22_RecurringCreateEnds ==
    lastAddedSeries =>
        LET e     == loopEnd
            limit == limitDate(Parse(addedBase.Start))
        IN  /\ e.done
            /\ pastLimit(e.currentDate, limit) \/ e.count = MaxGenerated
            /\ Len(e.out) = e.count
            /\ \A k \in 1..Len(e.out) : ~After(Parse(e.out[k].Start), limit)
            /\ last.arg.sb.RecMode # "Interval" =>
                  \A k \in 0..Len(e.out) :
                      searchSteps(Parse(addedAt(k).Start), last.arg.sb.RecDay) \in 1..7
            /\ items = last.pre \o <<addedBase>> \o e.out

\* a weekday rule of every other week that ends past the year, before the cap
C22_Witness ==
    /\ lastAddedSeries
    /\ last.arg.sb.RecMode = "Specific Day"
    /\ last.arg.sb.RecOrdinal = "Every Other"
    /\ LET e == loopEnd
       IN  /\ e.done
           /\ e.count < MaxGenerated
           /\ e.count >= 20
           /\ pastLimit(e.currentDate, limitDate(Parse(addedBase.Start)))

(***************************************************************************)
(* C23.  Selecting an item for editing.                                    *)
(***************************************************************************)
\* C23: after startEditing the store is what it was before: no item has a
\* field changed, whatever the sidebar held when the item was clicked.
C23_StartEditingChangesNothing ==
    last.op = "startEditing" => items = last.pre

(***************************************************************************)
(* C24.  Every item is shown on the day it starts.                         *)
(***************************************************************************)
\* C24: in every reachable state every item passes refreshCalendar's test for
\* the day that contains its start, also an event whose end is earlier than
\* its start.
C24_ShownOnItsStartDay ==
    \A i \in 1..Len(items) :
        matchesDay(items[i], items[i].Start[1], items[i].Start[2], items[i].Start[3])

====
